---------------------------- MODULE Spec2Model ----------------------------
(***************************************************************************)
(* State-machine model of kernel-module-example/vsock_tap_bridge.c: the    *)
(* module init/exit lifecycle, the RX and TX kernel threads, the TAP       *)
(* transmit upcall tap_xmit, and the environment they run against (the     *)
(* vsock peer, the network stack, userspace bringing the interface up).    *)
(* Every step of a thread between two accesses to shared state is one      *)
(* action; the kernel services the module calls (kthread_stop, netif_rx,   *)
(* kernel_recvmsg, dev_close, ...) are modelled by their documented        *)
(* behaviour.                                                              *)
(***************************************************************************)
EXTENDS Integers, Sequences, FiniteSets, TLC

\* ---------------------------------------------------------------- bounds
MaxFrames == 2      \* frames the stack submits to tap_xmit
MaxLen == 2         \* longest frame, in bytes
MaxRx == 2          \* results the transport delivers to kernel_recvmsg
MaxExitCalls == 2   \* invocations of vsock_tap_bridge_exit

\* The runs of the environment that are explored: outbound traffic on a silent
\* transport, inbound traffic with no outbound frames, and one of each.
Scenarios == {[frames |-> MaxFrames, rx |-> 0],
              [frames |-> 0, rx |-> MaxRx],
              [frames |-> 1, rx |-> 1]}

\* ------------------------------------------------------- errno constants
EAGAIN == 11
EINTR == 4
ECONNRESET == 104
EPIPE == 32

\* ------------------------------------------------------------- the state
VARIABLES
    bridge,        \* the global pointer: "NULL" or "B"
    bridge_mem,    \* the kzalloc'ed struct: "none", "live", "freed"
    running,       \* bridge->running
    tap_dev,       \* bridge->tap_dev: "NULL" or "DEV"
    dev_state,     \* the net_device: "none","allocated","registered","unregistered","freed"
    dev_up,        \* netif_running(tap_dev)
    vsock_sock,    \* bridge->vsock_sock: "NULL" or "SOCK"
    sock_state,    \* the socket: "none","created","connected","released"
    rx_thread,     \* bridge->rx_thread: "NULL", "TASK" or "ERR"
    tx_thread,     \* bridge->tx_thread: "NULL", "TASK" or "ERR"
    rx_task,       \* the RX kthread: [st, pc, should_stop, len, why]
    tx_task,       \* the TX kthread: [st, pc, should_stop, skb, state]
    tx_queue,      \* bridge->tx_queue, a FIFO of frames [id, len]
    stats,         \* tap_dev->stats
    dev_rx_dropped,\* the stack's own per-device count of frames netif_rx dropped
    init_pc,       \* position of vsock_tap_bridge_init
    exit_pc,       \* position of vsock_tap_bridge_exit
    xmit,          \* the tap_xmit call in progress: [pc, skb]
    rx_pending,    \* results the transport holds for the next kernel_recvmsg
    faults,        \* invalid accesses performed so far (null/stale/freed/stack)
    budget,        \* what the environment will do: [frames, rx]
    hist           \* history: what was submitted, written, delivered, released

vars == <<bridge, bridge_mem, running, tap_dev, dev_state, dev_up, vsock_sock,
          sock_state, rx_thread, tx_thread, rx_task, tx_task, tx_queue, stats,
          dev_rx_dropped, init_pc, exit_pc, xmit, rx_pending, faults, budget,
          hist>>

NoSkb == [id |-> 0, len |-> 0]

\* struct net_device_stats as alloc_netdev zeroes it
ZeroStats == [rx_packets |-> 0, rx_bytes |-> 0, tx_packets |-> 0,
              tx_bytes |-> 0, rx_dropped |-> 0, tx_dropped |-> 0]

Resources == {"sock", "netdev", "bridge"}

ZeroHist == [submitted |-> 0,     \* frames handed to tap_xmit so far
             wire |-> <<>>,       \* bytes written to the transport: <<id, k, len>>
             freed |-> [i \in 1..MaxFrames |-> 0],  \* releases of each outbound frame
             rx_events |-> 0,     \* transport results produced so far
             delivered |-> <<>>,  \* received frames the stack accepted
             down_attempts |-> 0, \* netif_rx calls made while the device was down
             released |-> [r \in Resources |-> 0],  \* releases of each resource
             exit_calls |-> 0,    \* invocations of vsock_tap_bridge_exit
             tx_errors |-> 0,     \* kernel_sendmsg calls that returned an error
             purged |-> 0]        \* frames the shutdown purge took off the queue

\* ------------------------------------------------------------- the queue
\* skb_queue_tail: append at the tail
skb_queue_tail(q, skb) == Append(q, skb)

\* a wrong skb_dequeue that takes the newest frame instead of the oldest
skb_dequeue_lifo(q) ==
    IF q = <<>> THEN [skb |-> NoSkb, rest |-> q]
    ELSE [skb |-> q[Len(q)], rest |-> SubSeq(q, 1, Len(q) - 1)]

\* a wrong skb_dequeue that returns the head and leaves it on the queue
skb_dequeue_peek(q) ==
    IF q = <<>> THEN [skb |-> NoSkb, rest |-> q]
    ELSE [skb |-> Head(q), rest |-> q]

\* skb_dequeue: unlink and return the head, or NULL when the queue is empty
skb_dequeue(q) ==
    IF q = <<>> THEN [skb |-> NoSkb, rest |-> q]
    ELSE [skb |-> Head(q), rest |-> Tail(q)]

\* ------------------------------------------------------------- the tasks
RxTask0 == [st |-> "none", pc |-> "entry", should_stop |-> FALSE, ev |-> 0, len |-> 0,
            why |-> "none"]
TxTask0 == [st |-> "none", pc |-> "loop", should_stop |-> FALSE, skb |-> NoSkb,
            state |-> "RUNNING"]

Init ==
    /\ bridge = "NULL"
    /\ bridge_mem = "none"
    /\ running = FALSE
    /\ tap_dev = "NULL"
    /\ dev_state = "none"
    /\ dev_up = FALSE
    /\ vsock_sock = "NULL"
    /\ sock_state = "none"
    /\ rx_thread = "NULL"
    /\ tx_thread = "NULL"
    /\ rx_task = RxTask0
    /\ tx_task = TxTask0
    /\ tx_queue = <<>>
    /\ stats = ZeroStats
    /\ dev_rx_dropped = 0
    /\ init_pc = "not_called"
    /\ exit_pc = "idle"
    /\ xmit = [pc |-> "idle", skb |-> NoSkb]
    /\ rx_pending = <<>>
    /\ faults = {}
    /\ budget \in Scenarios
    /\ hist = ZeroHist


\* groups of variables, for UNCHANGED
brVars == <<bridge, bridge_mem, running>>
devVars == <<tap_dev, dev_state, dev_up>>
sockVars == <<vsock_sock, sock_state>>
handleVars == <<rx_thread, tx_thread>>
taskVars == <<rx_task, tx_task>>
txVars == <<tx_queue, xmit>>
rxVars == <<rx_pending, dev_rx_dropped>>

Fault(tag) == faults' = faults \cup {tag}

Release(r) == [hist EXCEPT !.released[r] = @ + 1]

\* ------------------------------------------------------------------------
\* kthread_stop(k): set k's should_stop, wake k, wait until k has exited.
\* The call and the wait are two steps.  Calling it for a thread that has
\* already returned from its thread function by itself touches a task_struct
\* the kernel has released: the call then either goes through or oopses.
\* ------------------------------------------------------------------------
StaleStopOutcomes == {"returns", "oops"}

KthreadStopped(task) == [task EXCEPT !.should_stop = TRUE]

\* wake_up_process(task): a task in TASK_INTERRUPTIBLE becomes runnable; a
\* task that is running is left as it is
wake_up_process(task) == [task EXCEPT !.state = "RUNNING"]

\* ======================= vsock_tap_bridge_init ==========================

\* line 219: the value stored into bridge->running right after allocation
RunningAtAlloc == TRUE

\* lines 212-219: kzalloc, skb_queue_head_init, running = true
InitAlloc ==
    /\ init_pc = "not_called"
    /\ \E ok \in BOOLEAN :
         IF ok
         THEN /\ bridge' = "B"
              /\ bridge_mem' = "live"
              /\ running' = RunningAtAlloc
              /\ init_pc' = "alloc_netdev"
         ELSE /\ init_pc' = "returned_err"      \* return -ENOMEM
              /\ UNCHANGED brVars
    /\ UNCHANGED <<budget, devVars, sockVars, handleVars, taskVars, txVars, rxVars,
                   stats, exit_pc, faults, hist>>

\* lines 222-227: alloc_netdev(tap_setup)
InitAllocNetdev ==
    /\ init_pc = "alloc_netdev"
    /\ \E ok \in BOOLEAN :
         IF ok
         THEN /\ tap_dev' = "DEV"
              /\ dev_state' = "allocated"
              /\ stats' = ZeroStats
              /\ init_pc' = "register_netdev"
         ELSE /\ init_pc' = "err_free_bridge"
              /\ UNCHANGED <<tap_dev, dev_state, stats>>
    /\ UNCHANGED <<budget, brVars, dev_up, sockVars, handleVars, taskVars, txVars, rxVars,
                   exit_pc, faults, hist>>

\* lines 230-234: register_netdev
InitRegister ==
    /\ init_pc = "register_netdev"
    /\ \E ok \in BOOLEAN :
         IF ok
         THEN /\ dev_state' = "registered"
              /\ init_pc' = "sock_create"
         ELSE /\ init_pc' = "err_free_netdev"
              /\ UNCHANGED dev_state
    /\ UNCHANGED <<budget, brVars, tap_dev, dev_up, sockVars, handleVars, taskVars, txVars,
                   rxVars, stats, exit_pc, faults, hist>>

\* lines 237-241: sock_create_kern
InitSockCreate ==
    /\ init_pc = "sock_create"
    /\ \E ok \in BOOLEAN :
         IF ok
         THEN /\ vsock_sock' = "SOCK"
              /\ sock_state' = "created"
              /\ init_pc' = "connect"
         ELSE /\ init_pc' = "err_unregister_netdev"
              /\ UNCHANGED sockVars
    /\ UNCHANGED <<budget, brVars, devVars, handleVars, taskVars, txVars, rxVars,
                   stats, exit_pc, faults, hist>>

\* lines 244-254: kernel_connect
InitConnect ==
    /\ init_pc = "connect"
    /\ \E ok \in BOOLEAN :
         IF ok
         THEN /\ sock_state' = "connected"
              /\ init_pc' = "start_rx"
         ELSE /\ init_pc' = "err_close_socket"
              /\ UNCHANGED sock_state
    /\ UNCHANGED <<budget, brVars, devVars, vsock_sock, handleVars, taskVars, txVars, rxVars,
                   stats, exit_pc, faults, hist>>

\* lines 257-262: kthread_run(vsock_rx_thread)
InitStartRx ==
    /\ init_pc = "start_rx"
    /\ \E ok \in BOOLEAN :
         IF ok
         THEN /\ rx_thread' = "TASK"
              /\ rx_task' = [RxTask0 EXCEPT !.st = "running"]
              /\ init_pc' = "start_tx"
         ELSE /\ rx_thread' = "ERR"
              /\ init_pc' = "err_close_socket"
              /\ UNCHANGED rx_task
    /\ UNCHANGED <<budget, brVars, devVars, sockVars, tx_thread, tx_task, txVars, rxVars,
                   stats, exit_pc, faults, hist>>

\* an unwind that skips stopping the RX thread
TxStartFailSkipsStop == "err_close_socket"

\* line 269: where a failed start of the TX thread jumps to
TxStartFailLabel == "err_stop_rx"

\* lines 265-270: kthread_run(vsock_tx_thread)
InitStartTx ==
    /\ init_pc = "start_tx"
    /\ \E ok \in BOOLEAN :
         IF ok
         THEN /\ tx_thread' = "TASK"
              /\ tx_task' = [TxTask0 EXCEPT !.st = "running"]
              /\ init_pc' = "dev_open"
         ELSE /\ tx_thread' = "ERR"
              /\ init_pc' = TxStartFailLabel
              /\ UNCHANGED tx_task
    /\ UNCHANGED <<budget, brVars, devVars, sockVars, rx_thread, rx_task, txVars, rxVars,
                   stats, exit_pc, faults, hist>>

\* lines 273-278: dev_open, whose result is ignored, then return 0
InitDevOpen ==
    /\ init_pc = "dev_open"
    /\ \E ok \in BOOLEAN : dev_up' = (dev_up \/ ok)
    /\ init_pc' = "returned_ok"
    /\ UNCHANGED <<budget, brVars, tap_dev, dev_state, sockVars, handleVars, taskVars, txVars,
                   rxVars, stats, exit_pc, faults, hist>>

\* ---- the unwind labels of vsock_tap_bridge_init (lines 280-291) ----

\* line 281: kthread_stop(bridge->rx_thread), the call
UnwindStopRx ==
    /\ init_pc = "err_stop_rx"
    /\ IF rx_task.st = "exited"
       THEN /\ Fault("kthread_stop_stale")
            /\ \E o \in StaleStopOutcomes :
                 init_pc' = IF o = "returns" THEN "err_close_socket" ELSE "oops"
            /\ UNCHANGED rx_task
       ELSE /\ rx_task' = KthreadStopped(rx_task)
            /\ init_pc' = "err_stop_rx_wait"
            /\ UNCHANGED faults
    /\ UNCHANGED <<budget, brVars, devVars, sockVars, handleVars, tx_task, txVars, rxVars,
                   stats, exit_pc, hist>>

\* line 281: kthread_stop(bridge->rx_thread), waiting for the thread to exit
UnwindStopRxWait ==
    /\ init_pc = "err_stop_rx_wait"
    /\ rx_task.st = "exited"
    /\ init_pc' = "err_close_socket"
    /\ UNCHANGED <<budget, brVars, devVars, sockVars, handleVars, taskVars, txVars, rxVars,
                   stats, exit_pc, faults, hist>>

\* line 283: sock_release
UnwindSockRelease ==
    /\ init_pc = "err_close_socket"
    /\ sock_state' = "released"
    /\ hist' = Release("sock")
    /\ init_pc' = "err_unregister_netdev"
    /\ UNCHANGED <<budget, brVars, devVars, vsock_sock, handleVars, taskVars, txVars, rxVars,
                   stats, exit_pc, faults>>

\* line 285: unregister_netdev (closes the device if it is up, and returns
\* only when no transmit upcall is in flight)
UnwindUnregister ==
    /\ init_pc = "err_unregister_netdev"
    /\ xmit.pc = "idle"
    /\ dev_state' = "unregistered"
    /\ dev_up' = FALSE
    /\ init_pc' = "err_free_netdev"
    /\ UNCHANGED <<budget, brVars, tap_dev, sockVars, handleVars, taskVars, txVars, rxVars,
                   stats, exit_pc, faults, hist>>

\* line 287: free_netdev
UnwindFreeNetdev ==
    /\ init_pc = "err_free_netdev"
    /\ dev_state' = "freed"
    /\ hist' = Release("netdev")
    /\ init_pc' = "err_free_bridge"
    /\ UNCHANGED <<budget, brVars, tap_dev, dev_up, sockVars, handleVars, taskVars, txVars,
                   rxVars, stats, exit_pc, faults>>

\* lines 289-291: kfree(bridge); bridge = NULL; return ret
UnwindFreeBridge ==
    /\ init_pc = "err_free_bridge"
    /\ bridge_mem' = "freed"
    /\ bridge' = "NULL"
    /\ hist' = Release("bridge")
    /\ init_pc' = "returned_err"
    /\ UNCHANGED <<budget, running, devVars, sockVars, handleVars, taskVars, txVars, rxVars,
                   stats, exit_pc, faults>>

\* ======================= vsock_tap_bridge_exit ==========================

\* an exit routine that lacks the check of line 301
ExitBridgeAbsentNever == FALSE

\* line 301: if (!bridge) return
ExitBridgeAbsent == bridge = "NULL"

\* lines 297-305: the call, the null check, running = false.
\* The module's exit routine is called after its init routine has returned.
ExitCall ==
    /\ init_pc \in {"returned_ok", "returned_err"}
    /\ exit_pc = "idle"
    /\ hist.exit_calls < MaxExitCalls
    /\ hist' = [hist EXCEPT !.exit_calls = @ + 1]
    /\ IF ExitBridgeAbsent
       THEN UNCHANGED <<running, exit_pc, faults>>
       ELSE IF bridge = "B" /\ bridge_mem = "live"
            THEN /\ running' = FALSE
                 /\ exit_pc' = "stop_tx"
                 /\ UNCHANGED faults
            ELSE /\ Fault("exit_null_deref")
                 /\ exit_pc' = "oops"
                 /\ UNCHANGED running
    /\ UNCHANGED <<budget, bridge, bridge_mem, devVars, sockVars, handleVars, taskVars, txVars,
                   rxVars, stats, init_pc>>

\* lines 308-309: if (bridge->tx_thread) kthread_stop(bridge->tx_thread), the call
ExitStopTx ==
    /\ exit_pc = "stop_tx"
    /\ IF tx_thread = "NULL"
       THEN /\ exit_pc' = "stop_rx"
            /\ UNCHANGED <<tx_task, faults>>
       ELSE IF tx_task.st = "exited"
            THEN /\ Fault("kthread_stop_stale")
                 /\ \E o \in StaleStopOutcomes :
                      exit_pc' = IF o = "returns" THEN "stop_rx" ELSE "oops"
                 /\ UNCHANGED tx_task
            ELSE /\ tx_task' = wake_up_process(KthreadStopped(tx_task))
                 /\ exit_pc' = "stop_tx_wait"
                 /\ UNCHANGED faults
    /\ UNCHANGED <<budget, brVars, devVars, sockVars, handleVars, rx_task, txVars, rxVars,
                   stats, init_pc, hist>>

\* line 309: kthread_stop(bridge->tx_thread), waiting for the thread to exit
ExitStopTxWait ==
    /\ exit_pc = "stop_tx_wait"
    /\ tx_task.st = "exited"
    /\ exit_pc' = "stop_rx"
    /\ UNCHANGED <<budget, brVars, devVars, sockVars, handleVars, taskVars, txVars, rxVars,
                   stats, init_pc, faults, hist>>

\* lines 310-311: if (bridge->rx_thread) kthread_stop(bridge->rx_thread), the call
ExitStopRx ==
    /\ exit_pc = "stop_rx"
    /\ IF rx_thread = "NULL"
       THEN /\ exit_pc' = "sock_release"
            /\ UNCHANGED <<rx_task, faults>>
       ELSE IF rx_task.st = "exited"
            THEN /\ Fault("kthread_stop_stale")
                 /\ \E o \in StaleStopOutcomes :
                      exit_pc' = IF o = "returns" THEN "sock_release" ELSE "oops"
                 /\ UNCHANGED rx_task
            ELSE /\ rx_task' = KthreadStopped(rx_task)
                 /\ exit_pc' = "stop_rx_wait"
                 /\ UNCHANGED faults
    /\ UNCHANGED <<budget, brVars, devVars, sockVars, handleVars, tx_task, txVars, rxVars,
                   stats, init_pc, hist>>

\* line 311: kthread_stop(bridge->rx_thread), waiting for the thread to exit
ExitStopRxWait ==
    /\ exit_pc = "stop_rx_wait"
    /\ rx_task.st = "exited"
    /\ exit_pc' = "sock_release"
    /\ UNCHANGED <<budget, brVars, devVars, sockVars, handleVars, taskVars, txVars, rxVars,
                   stats, init_pc, faults, hist>>

\* lines 314-315: if (bridge->vsock_sock) sock_release(bridge->vsock_sock)
ExitSockRelease ==
    /\ exit_pc = "sock_release"
    /\ IF vsock_sock = "NULL"
       THEN UNCHANGED <<sock_state, hist>>
       ELSE /\ sock_state' = "released"
            /\ hist' = Release("sock")
    /\ exit_pc' = "dev_close"
    /\ UNCHANGED <<budget, brVars, devVars, vsock_sock, handleVars, taskVars, txVars, rxVars,
                   stats, init_pc, faults>>

\* lines 318-321: if (bridge->tap_dev) dev_close (returns only when no
\* transmit upcall is in flight)
ExitDevClose ==
    /\ exit_pc = "dev_close"
    /\ IF tap_dev = "NULL"
       THEN /\ exit_pc' = "purge"
            /\ UNCHANGED dev_up
       ELSE /\ xmit.pc = "idle"
            /\ dev_up' = FALSE
            /\ exit_pc' = "unregister_netdev"
    /\ UNCHANGED <<budget, brVars, tap_dev, dev_state, sockVars, handleVars, taskVars, txVars,
                   rxVars, stats, init_pc, faults, hist>>

\* line 322: unregister_netdev
ExitUnregister ==
    /\ exit_pc = "unregister_netdev"
    /\ xmit.pc = "idle"
    /\ dev_state' = "unregistered"
    /\ dev_up' = FALSE
    /\ exit_pc' = "free_netdev"
    /\ UNCHANGED <<budget, brVars, tap_dev, sockVars, handleVars, taskVars, txVars, rxVars,
                   stats, init_pc, faults, hist>>

\* line 323: free_netdev
ExitFreeNetdev ==
    /\ exit_pc = "free_netdev"
    /\ dev_state' = "freed"
    /\ hist' = Release("netdev")
    /\ exit_pc' = "purge"
    /\ UNCHANGED <<budget, brVars, tap_dev, dev_up, sockVars, handleVars, taskVars, txVars,
                   rxVars, stats, init_pc, faults>>

\* the release count of every frame of q raised by one
RECURSIVE FreeAll(_, _)
FreeAll(f, q) ==
    IF q = <<>> THEN f
    ELSE FreeAll([f EXCEPT ![Head(q).id] = @ + 1], Tail(q))

\* lines 327-328: skb_queue_purge of both queues (rx_queue is never filled)
ExitPurge ==
    /\ exit_pc = "purge"
    /\ tx_queue' = <<>>
    /\ hist' = [hist EXCEPT !.freed = FreeAll(@, tx_queue),
                             !.purged = @ + Len(tx_queue)]
    /\ exit_pc' = "kfree"
    /\ UNCHANGED <<budget, brVars, devVars, sockVars, handleVars, taskVars, xmit, rxVars,
                   stats, init_pc, faults>>

\* lines 331-334: kfree(bridge); bridge = NULL; return
ExitKfree ==
    /\ exit_pc = "kfree"
    /\ bridge_mem' = "freed"
    /\ bridge' = "NULL"
    /\ hist' = Release("bridge")
    /\ exit_pc' = "idle"
    /\ UNCHANGED <<budget, running, devVars, sockVars, handleVars, taskVars, txVars, rxVars,
                   stats, init_pc, faults>>

\* =========================== vsock_rx_thread ============================

\* line 110: the loop condition, with the fields the thread reads
LoopCondition(should_stop, run) == ~should_stop /\ run

\* lines 119-124: what the thread does with the result of kernel_recvmsg
RecvOutcome(len) ==
    IF len <= 0
    THEN IF len = -EAGAIN THEN "continue" ELSE "break"
    ELSE "frame"

\* the size of a kernel thread's stack (THREAD_SIZE, 16 KiB) and of the receive
\* buffer vsock_rx_thread keeps on it (line 104)
KernelStackBytes == 16384
RxBufferBytes == 65536

\* a thread whose frame does not fit its stack writes below it: the kernel
\* oopses on an unmapped page, or the write lands in other memory and the
\* thread goes on
StackOutcomes(frame) ==
    IF frame > KernelStackBytes THEN {"runs", "oops"} ELSE {"runs"}

\* lines 99-108: the thread starts: its frame with buffer[65536] is set up and
\* pr_info is called below it
RxEntry ==
    /\ rx_task.st = "running"
    /\ rx_task.pc = "entry"
    /\ faults' = faults \cup
                 (IF RxBufferBytes > KernelStackBytes THEN {"rx_stack_overrun"} ELSE {})
    /\ \E o \in StackOutcomes(RxBufferBytes) :
         rx_task' = [rx_task EXCEPT !.pc = IF o = "runs" THEN "loop" ELSE "oops"]
    /\ UNCHANGED <<budget, brVars, devVars, sockVars, handleVars, tx_task, txVars, rxVars,
                   stats, init_pc, exit_pc, hist>>

\* lines 110, 149-150: test the loop condition; leave and return when it fails
RxLoop ==
    /\ rx_task.st = "running"
    /\ rx_task.pc = "loop"
    /\ IF ~rx_task.should_stop /\ bridge_mem # "live"
       THEN /\ Fault("rx_bridge_freed")
            /\ rx_task' = [rx_task EXCEPT !.pc = "oops"]
       ELSE /\ UNCHANGED faults
            /\ rx_task' = IF LoopCondition(rx_task.should_stop, running)
                          THEN [rx_task EXCEPT !.pc = "recv"]
                          ELSE [rx_task EXCEPT !.st = "exited", !.pc = "done",
                                               !.why = "stopped"]
    /\ UNCHANGED <<budget, brVars, devVars, sockVars, handleVars, tx_task, txVars, rxVars,
                   stats, init_pc, exit_pc, hist>>

\* lines 112-124: the blocking kernel_recvmsg returns with the next result the
\* transport holds; nothing else makes it return
RxRecv ==
    /\ rx_task.st = "running"
    /\ rx_task.pc = "recv"
    /\ IF sock_state # "connected"
       THEN /\ Fault("rx_sock_released")
            /\ rx_task' = [rx_task EXCEPT !.pc = "oops"]
            /\ UNCHANGED rx_pending
       ELSE /\ rx_pending # <<>>
            /\ rx_pending' = Tail(rx_pending)
            /\ UNCHANGED faults
            /\ LET r == Head(rx_pending)
                   o == RecvOutcome(r.val)
               IN rx_task' =
                    IF o = "frame"
                    THEN [rx_task EXCEPT !.pc = "inject", !.ev = r.ev, !.len = r.val]
                    ELSE IF o = "continue"
                    THEN [rx_task EXCEPT !.pc = "loop"]
                    ELSE [rx_task EXCEPT !.st = "exited", !.pc = "done", !.ev = 0,
                                         !.len = r.val, !.why = "error"]
    /\ UNCHANGED <<budget, brVars, devVars, sockVars, handleVars, tx_task, txVars,
                   dev_rx_dropped, stats, init_pc, exit_pc, hist>>

\* a wrong update that counts a received frame in the transmit fields
RxStatsUpdateTxFields(st, len) ==
    [st EXCEPT !.tx_packets = @ + 1, !.tx_bytes = @ + len]

\* lines 145-146: the statistics after an injection
RxStatsUpdate(st, len) ==
    [st EXCEPT !.rx_packets = @ + 1, !.rx_bytes = @ + len]

\* lines 126-147: dev_alloc_skb (may fail), fill the skb, netif_rx, statistics.
\* netif_rx hands the frame to the stack when the device is running; otherwise
\* the stack frees it and counts it in its own per-device drop counter.  The
\* result of netif_rx is not looked at.
RxInject ==
    /\ rx_task.st = "running"
    /\ rx_task.pc = "inject"
    /\ \E alloc_ok \in BOOLEAN :
         IF ~alloc_ok
         THEN /\ rx_task' = [rx_task EXCEPT !.pc = "loop", !.ev = 0, !.len = 0]
              /\ UNCHANGED <<dev_rx_dropped, stats, faults, hist>>
         ELSE IF dev_state \in {"none", "freed"} \/ bridge_mem # "live"
         THEN /\ Fault("rx_dev_freed")
              /\ rx_task' = [rx_task EXCEPT !.pc = "oops"]
              /\ UNCHANGED <<dev_rx_dropped, stats, hist>>
         ELSE /\ rx_task' = [rx_task EXCEPT !.pc = "loop", !.ev = 0, !.len = 0]
              /\ stats' = RxStatsUpdate(stats, rx_task.len)
              /\ UNCHANGED faults
              /\ IF dev_up
                 THEN /\ hist' = [hist EXCEPT !.delivered = Append(@, rx_task.ev)]
                      /\ UNCHANGED dev_rx_dropped
                 ELSE /\ dev_rx_dropped' = dev_rx_dropped + 1
                      /\ hist' = [hist EXCEPT !.down_attempts = @ + 1]
    /\ UNCHANGED <<budget, brVars, devVars, sockVars, handleVars, tx_task, txVars, rx_pending,
                   init_pc, exit_pc>>

\* =========================== vsock_tx_thread ============================

\* lines 166, 196-197: test the loop condition; leave and return when it fails
TxLoop ==
    /\ tx_task.st = "running"
    /\ tx_task.pc = "loop"
    /\ IF ~tx_task.should_stop /\ bridge_mem # "live"
       THEN /\ Fault("tx_bridge_freed")
            /\ tx_task' = [tx_task EXCEPT !.pc = "oops"]
       ELSE /\ UNCHANGED faults
            /\ tx_task' = IF LoopCondition(tx_task.should_stop, running)
                          THEN [tx_task EXCEPT !.pc = "dequeue"]
                          ELSE [tx_task EXCEPT !.st = "exited", !.pc = "done"]
    /\ UNCHANGED <<budget, brVars, devVars, sockVars, handleVars, rx_task, txVars, rxVars,
                   stats, init_pc, exit_pc, hist>>

\* lines 168-169: skb_dequeue
TxDequeue ==
    /\ tx_task.st = "running"
    /\ tx_task.pc = "dequeue"
    /\ IF bridge_mem # "live"
       THEN /\ Fault("tx_bridge_freed")
            /\ tx_task' = [tx_task EXCEPT !.pc = "oops"]
            /\ UNCHANGED tx_queue
       ELSE /\ UNCHANGED faults
            /\ LET d == skb_dequeue(tx_queue)
               IN /\ tx_queue' = d.rest
                  /\ tx_task' = IF d.skb = NoSkb
                                THEN [tx_task EXCEPT !.pc = "set_state"]
                                ELSE [tx_task EXCEPT !.pc = "send", !.skb = d.skb]
    /\ UNCHANGED <<budget, brVars, devVars, sockVars, handleVars, rx_task, xmit, rxVars,
                   stats, init_pc, exit_pc, hist>>

\* line 171: set_current_state(TASK_INTERRUPTIBLE)
TxSetState ==
    /\ tx_task.st = "running"
    /\ tx_task.pc = "set_state"
    /\ tx_task' = [tx_task EXCEPT !.pc = "sleep", !.state = "INTERRUPTIBLE"]
    /\ UNCHANGED <<budget, brVars, devVars, sockVars, handleVars, rx_task, txVars, rxVars,
                   stats, init_pc, exit_pc, faults, hist>>

\* a sleep that ends only when the task is woken: schedule() in place of
\* schedule_timeout()
schedule_returns(state, expired) == state = "RUNNING"

\* line 172: schedule_timeout(HZ / 100) returns at once when the task was woken
\* since it set its state, and otherwise when it is woken or the 10 ms expire
schedule_timeout_returns(state, expired) == state = "RUNNING" \/ expired

\* lines 172-173: schedule_timeout(HZ / 100); continue.  The timer always
\* expires in the end.
TxSleep ==
    /\ tx_task.st = "running"
    /\ tx_task.pc = "sleep"
    /\ schedule_timeout_returns(tx_task.state, TRUE)
    /\ tx_task' = [tx_task EXCEPT !.pc = "loop", !.state = "RUNNING"]
    /\ UNCHANGED <<budget, brVars, devVars, sockVars, handleVars, rx_task, txVars, rxVars,
                   stats, init_pc, exit_pc, faults, hist>>

\* the results kernel_sendmsg can give for a frame of len bytes: an error, or
\* the number of bytes the stream socket accepted
SendResults(len) == {-EPIPE} \cup (1..len)

\* the bytes 1..n of frame skb as they appear on the transport
RECURSIVE WireBytes(_, _)
WireBytes(skb, n) ==
    IF n <= 0 THEN <<>>
    ELSE Append(WireBytes(skb, n - 1), <<skb.id, n, skb.len>>)

\* lines 184-190: the statistics after kernel_sendmsg returned len
TxStatsUpdate(st, len) ==
    IF len < 0 THEN st
    ELSE [st EXCEPT !.tx_packets = @ + 1, !.tx_bytes = @ + len]

\* lines 176-193: one kernel_sendmsg for the whole frame, the statistics,
\* dev_kfree_skb
TxSend ==
    /\ tx_task.st = "running"
    /\ tx_task.pc = "send"
    /\ IF sock_state # "connected" \/ dev_state \in {"none", "freed"}
       THEN /\ Fault("tx_resource_released")
            /\ tx_task' = [tx_task EXCEPT !.pc = "oops"]
            /\ UNCHANGED <<stats, hist>>
       ELSE /\ UNCHANGED faults
            /\ \E n \in SendResults(tx_task.skb.len) :
                 /\ stats' = TxStatsUpdate(stats, n)
                 /\ hist' = [hist EXCEPT
                               !.wire = @ \o WireBytes(tx_task.skb, n),
                               !.freed[tx_task.skb.id] = @ + 1,
                               !.tx_errors = IF n < 0 THEN @ + 1 ELSE @]
            /\ tx_task' = [tx_task EXCEPT !.pc = "loop", !.skb = NoSkb]
    /\ UNCHANGED <<budget, brVars, devVars, sockVars, handleVars, rx_task, txVars, rxVars,
                   init_pc, exit_pc>>

\* ================================ tap_xmit ===============================

\* line 59: if (!bridge || !bridge->running)
XmitRejects == bridge = "NULL" \/ ~running

\* lines 57-62: the stack hands a frame to the device, which it does only for
\* a registered device that is up, one call at a time (the device has a single
\* transmit queue); a rejected frame is freed
XmitCall ==
    /\ xmit.pc = "idle"
    /\ dev_state = "registered"
    /\ dev_up
    /\ hist.submitted < budget.frames
    /\ \E len \in 1..MaxLen :
         LET skb == [id |-> hist.submitted + 1, len |-> len]
         IN IF XmitRejects
            THEN /\ hist' = [hist EXCEPT !.submitted = @ + 1, !.freed[skb.id] = @ + 1]
                 /\ UNCHANGED xmit
            ELSE /\ hist' = [hist EXCEPT !.submitted = @ + 1]
                 /\ xmit' = [pc |-> "queue", skb |-> skb]
    /\ UNCHANGED <<budget, brVars, devVars, sockVars, handleVars, taskVars, tx_queue, rxVars,
                   stats, init_pc, exit_pc, faults>>

\* lines 64-65: skb_queue_tail, under the queue's lock; the frame now belongs
\* to the queue
XmitQueue ==
    /\ xmit.pc = "queue"
    /\ tx_queue' = skb_queue_tail(tx_queue, xmit.skb)
    /\ xmit' = [pc |-> "wake", skb |-> NoSkb]
    /\ UNCHANGED <<budget, brVars, devVars, sockVars, handleVars, taskVars, rxVars,
                   stats, init_pc, exit_pc, faults, hist>>

\* wake_up_process on the task_struct of a thread that has returned touches
\* memory the kernel has released: the call goes through or oopses
StaleWakeOutcomes == {"returns", "oops"}

\* lines 67-70: wake_up_process(bridge->tx_thread); return NETDEV_TX_OK.  A
\* NULL handle or an error pointer is dereferenced: the call oopses and
\* tap_xmit does not return.
XmitWake ==
    /\ xmit.pc = "wake"
    /\ IF tx_thread # "TASK"
       THEN /\ Fault("wake_no_task")
            /\ xmit' = [xmit EXCEPT !.pc = "oops"]
            /\ UNCHANGED tx_task
       ELSE IF tx_task.st = "exited"
       THEN /\ Fault("wake_stale_task")
            /\ \E o \in StaleWakeOutcomes :
                 xmit' = [xmit EXCEPT !.pc = IF o = "returns" THEN "idle" ELSE "oops"]
            /\ UNCHANGED tx_task
       ELSE /\ tx_task' = wake_up_process(tx_task)
            /\ xmit' = [xmit EXCEPT !.pc = "idle"]
            /\ UNCHANGED faults
    /\ UNCHANGED <<budget, brVars, devVars, sockVars, handleVars, rx_task, tx_queue, rxVars,
                   stats, init_pc, exit_pc, hist>>

\* ============================ the environment ============================

\* what a kernel_recvmsg on the stream socket can return: a byte count, 0, or
\* a negative errno
RecvResults == (1..MaxLen) \cup {0, -EAGAIN, -EINTR, -ECONNRESET}

\* the peer sends, closes or resets, or the read is interrupted: the transport
\* gets its next result once the previous one has been read
PeerEvent ==
    /\ sock_state = "connected"
    /\ rx_pending = <<>>
    /\ hist.rx_events < budget.rx
    /\ \E v \in RecvResults :
         /\ rx_pending' = Append(rx_pending, [ev |-> hist.rx_events + 1, val |-> v])
         /\ hist' = [hist EXCEPT !.rx_events = @ + 1]
    /\ UNCHANGED <<budget, brVars, devVars, sockVars, handleVars, taskVars, txVars,
                   dev_rx_dropped, stats, init_pc, exit_pc, faults>>

\* userspace brings the registered interface up (ip link set up)
AdminUp ==
    /\ dev_state = "registered"
    /\ ~dev_up
    /\ dev_up' = TRUE
    /\ UNCHANGED <<budget, brVars, tap_dev, dev_state, sockVars, handleVars, taskVars, txVars,
                   rxVars, stats, init_pc, exit_pc, faults, hist>>

\* ============================ specifications =============================

InitStep ==
    \/ InitAllocNetdev \/ InitRegister \/ InitSockCreate \/ InitConnect
    \/ InitStartRx \/ InitStartTx \/ InitDevOpen
    \/ UnwindStopRx \/ UnwindStopRxWait \/ UnwindSockRelease \/ UnwindUnregister
    \/ UnwindFreeNetdev \/ UnwindFreeBridge

ExitStep ==
    \/ ExitStopTx \/ ExitStopTxWait \/ ExitStopRx \/ ExitStopRxWait
    \/ ExitSockRelease \/ ExitDevClose \/ ExitUnregister \/ ExitFreeNetdev
    \/ ExitPurge \/ ExitKfree

RxStep == RxEntry \/ RxLoop \/ RxRecv \/ RxInject

TxStep == TxLoop \/ TxDequeue \/ TxSetState \/ TxSleep \/ TxSend

XmitStep == XmitQueue \/ XmitWake

Next ==
    \/ InitAlloc
    \/ InitAllocNetdev \/ InitRegister \/ InitSockCreate \/ InitConnect
    \/ InitStartRx \/ InitStartTx \/ InitDevOpen
    \/ UnwindStopRx \/ UnwindStopRxWait \/ UnwindSockRelease \/ UnwindUnregister
    \/ UnwindFreeNetdev \/ UnwindFreeBridge
    \/ ExitCall
    \/ ExitStopTx \/ ExitStopTxWait \/ ExitStopRx \/ ExitStopRxWait
    \/ ExitSockRelease \/ ExitDevClose \/ ExitUnregister \/ ExitFreeNetdev
    \/ ExitPurge \/ ExitKfree
    \/ RxEntry \/ RxLoop \/ RxRecv \/ RxInject
    \/ TxLoop \/ TxDequeue \/ TxSetState \/ TxSleep \/ TxSend
    \/ XmitCall \/ XmitQueue \/ XmitWake
    \/ PeerEvent \/ AdminUp

Spec == Init /\ [][Next]_vars

\* Every thread that can take a step eventually takes one: the scheduler runs the
\* two kthreads, the insmod/rmmod context inside init and exit, and the softirq
\* inside tap_xmit.  Nothing obliges the environment to load or unload the
\* module, to send on the transport, to submit frames or to bring the device up.
FairSpec ==
    /\ Spec
    /\ WF_vars(InitStep)
    /\ WF_vars(ExitStep)
    /\ WF_vars(RxStep)
    /\ WF_vars(TxStep)
    /\ WF_vars(XmitStep)

\* ================================ claims =================================

\* ---- C1 ----
\* C1: the bytes on the transport are the frames in the order tap_xmit took them
\* (frame ids never decrease along the wire), and each frame's bytes are one
\* contiguous run 1, 2, ... that no other frame's bytes interrupt.
WireOrderPreserved ==
    /\ \A i \in 1..Len(hist.wire) :
         /\ hist.wire[i][2] \in 1..hist.wire[i][3]
         /\ i = 1 => hist.wire[i][2] = 1
    /\ \A i \in 1..(Len(hist.wire) - 1) :
         LET a == hist.wire[i]
             b == hist.wire[i + 1]
         IN IF a[1] = b[1]
            THEN b[2] = a[2] + 1
            ELSE a[1] < b[1] /\ b[2] = 1

\* two frames were queued together and both reached the transport
WireHoldsTwoFrames ==
    \E i, j \in 1..Len(hist.wire) :
        /\ hist.wire[i][1] = 1
        /\ hist.wire[j][1] = 2
        /\ hist.wire[j][2] = 2

\* the invalid accesses other than the stack overrun that every RX thread
\* performs when it starts
OtherFaults == faults \ {"rx_stack_overrun"}

\* ---- C2 ----
\* C2: once shutdown has started on a bridge whose startup succeeded, it runs
\* to the end (the bridge is freed and the global pointer cleared), also when
\* the RX thread sits in a read on which nothing arrives.  Left out are the
\* runs in which the RX thread oopsed when it started or another invalid
\* access happened, and those in which the transport
\* has produced every result the scenario holds, so that a run refuting this
\* is one where the peer could still send and stays silent.
ShutdownCompletes ==
    (exit_pc = "stop_tx" /\ init_pc = "returned_ok")
        ~> (\/ bridge = "NULL"
            \/ OtherFaults # {}
            \/ rx_task.pc = "oops"
            \/ hist.rx_events = budget.rx)

\* ---- C3 ----
NothingLeftBehind ==
    /\ bridge = "NULL"
    /\ rx_task.st # "running"
    /\ tx_task.st # "running"
    /\ dev_state \in {"none", "freed"}
    /\ sock_state \in {"none", "released"}

\* C3: startup that returned an error left nothing behind, and startup that
\* returned success has activated the interface.
StartupAllOrNothing ==
    /\ init_pc = "returned_err" => NothingLeftBehind
    /\ (init_pc = "returned_ok" /\ exit_pc = "idle" /\ hist.exit_calls = 0) => dev_up

\* ---- C4 ----
\* C4: after the RX thread left its loop on a fatal read error while the TX
\* thread of a started bridge is running, the bridge enters shutdown: running
\* is cleared or the bridge is torn down.  Runs in which an invalid access
\* other than the RX thread's stack overrun happened are left out.
TransportLostReachesLifecycle ==
    (/\ rx_task.why = "error"
     /\ rx_task.len = -ECONNRESET
     /\ tx_task.st = "running"
     /\ init_pc = "returned_ok")
        ~> (~running \/ bridge_mem = "freed" \/ OtherFaults # {})

\* ---- C5 ----
AllButHist == <<bridge, bridge_mem, running, tap_dev, dev_state, dev_up, vsock_sock,
                sock_state, rx_thread, tx_thread, rx_task, tx_task, tx_queue, stats,
                dev_rx_dropped, init_pc, exit_pc, xmit, rx_pending, faults, budget>>

\* a call of the exit routine on a bridge that is absent
ExitCalledOnAbsent ==
    /\ hist'.exit_calls = hist.exit_calls + 1
    /\ bridge = "NULL"

\* C5: a call of the exit routine while the bridge is absent (stopped, or
\* startup failed) changes nothing; no resource is released twice; a teardown
\* step whose handle is NULL leaves its resource alone.
IdempotentShutdown ==
    /\ [](\A r \in Resources : hist.released[r] <= 1)
    /\ [][/\ ExitCalledOnAbsent =>
               /\ UNCHANGED AllButHist
               /\ hist' = [hist EXCEPT !.exit_calls = @ + 1]
          /\ (exit_pc = "sock_release" /\ vsock_sock = "NULL") =>
               UNCHANGED <<sock_state, hist>>
          /\ (exit_pc = "dev_close" /\ tap_dev = "NULL") =>
               UNCHANGED <<dev_state, dev_up, hist>>
          /\ (exit_pc = "stop_tx" /\ tx_thread = "NULL") => UNCHANGED tx_task
          /\ (exit_pc = "stop_rx" /\ rx_thread = "NULL") => UNCHANGED rx_task
         ]_vars

\* the exit routine was called again after a shutdown that ran to its end
ShutdownCalledTwice ==
    /\ init_pc = "returned_ok"
    /\ hist.exit_calls = 2
    /\ exit_pc = "idle"
    /\ bridge = "NULL"
    /\ hist.released["bridge"] = 1

\* ---- C6 ----
FullyWritten == Cardinality({i \in 1..Len(hist.wire) : hist.wire[i][2] = hist.wire[i][3]})

HeldFrames ==
    (IF xmit.pc = "queue" THEN 1 ELSE 0) + (IF tx_task.skb # NoSkb THEN 1 ELSE 0)

\* C6: every frame handed to tap_xmit was written in full, is queued, is held
\* by tap_xmit or the TX thread, or was counted in the device's tx_dropped.
NoSilentTxLoss ==
    hist.submitted = FullyWritten + Len(tx_queue) + HeldFrames + stats.tx_dropped

\* ---- C7 ----
\* C7: the frames netif_rx dropped because the device was down are counted as
\* drops, one per attempt, and not as received packets; no frame reaches the
\* stack twice.
RxDropAccounting ==
    /\ dev_rx_dropped = hist.down_attempts
    /\ stats.rx_packets = Len(hist.delivered)
    /\ \A i, j \in 1..Len(hist.delivered) :
         hist.delivered[i] = hist.delivered[j] => i = j

\* ---- C8 ----
WorkerFaults == {"rx_bridge_freed", "rx_sock_released", "rx_dev_freed",
                 "tx_bridge_freed", "tx_resource_released"}

\* C8: once the socket is released, the device unregistered or freed, or the
\* bridge freed, neither worker is running; no worker touched a released
\* resource.
ResourcesOutliveWorkers ==
    /\ (\/ sock_state = "released"
        \/ dev_state \in {"unregistered", "freed"}
        \/ bridge_mem = "freed")
       => (rx_task.st # "running" /\ tx_task.st # "running")
    /\ faults \cap WorkerFaults = {}

\* the unwind after a failed start of the TX thread released the socket of a
\* bridge whose RX thread had been started
UnwoundAfterRxStarted ==
    /\ init_pc = "returned_err"
    /\ rx_task.st = "exited"
    /\ tx_thread = "ERR"
    /\ sock_state = "released"
    /\ bridge_mem = "freed"

\* ---- C9 ----
\* C9: running is true only while the transport is connected.
RunningOnlyAfterConnect ==
    (bridge_mem = "live" /\ running) => sock_state = "connected"

\* ---- C10 ----
\* a step that stops a worker or releases a resource
TeardownAction ==
    \/ rx_task'.should_stop /\ ~rx_task.should_stop
    \/ tx_task'.should_stop /\ ~tx_task.should_stop
    \/ sock_state' = "released" /\ sock_state # "released"
    \/ dev_state' \in {"unregistered", "freed"} /\ dev_state' # dev_state
    \/ dev_up /\ ~dev_up'
    \/ bridge_mem' = "freed" /\ bridge_mem = "live"

\* C10: every teardown step, in shutdown and in the startup unwind, runs with
\* running already false, and running never goes back to true.
RunningFalseBeforeTeardown ==
    [][/\ TeardownAction => ~running
       /\ (bridge_mem = "live" /\ ~running) => ~running'
      ]_vars

\* ---- C11 ----
\* the read results the specification calls transient
TransientReads == {0, -EAGAIN, -EINTR}

\* C11: the RX thread never leaves its loop because of a read that returned 0,
\* would-block or interrupted: a thread that left on a read result left on
\* another one.
TransientReadKeepsRx ==
    rx_task.why = "error" => rx_task.len \notin TransientReads

\* ---- C12 ----
\* a step of the exit routine that stops a worker or closes the transport
ExitStopsOrCloses ==
    /\ exit_pc # "idle"
    /\ \/ tx_task'.should_stop /\ ~tx_task.should_stop
       \/ rx_task'.should_stop /\ ~rx_task.should_stop
       \/ sock_state' = "released" /\ sock_state # "released"

\* C12: startup registers the interface before it connects the transport,
\* connects before it starts a worker and starts both workers before it
\* activates the interface; shutdown has deactivated the interface when it
\* stops a worker or closes the transport, and unregisters the interface only
\* after the transport is closed.
LifecycleOrdering ==
    [][/\ (sock_state' = "connected" /\ sock_state # "connected") =>
            (dev_state = "registered" /\ rx_task.st = "none" /\ tx_task.st = "none")
       /\ (rx_task'.st = "running" /\ rx_task.st = "none") => sock_state = "connected"
       /\ (tx_task'.st = "running" /\ tx_task.st = "none") => rx_task.st # "none"
       /\ (init_pc = "dev_open" /\ init_pc' # init_pc) => tx_task.st # "none"
       /\ ExitStopsOrCloses => ~dev_up
       /\ (exit_pc # "idle" /\ dev_state' = "unregistered" /\ dev_state = "registered") =>
            sock_state # "connected"
      ]_vars

\* ---- C13 ----
\* the number of bytes of frame id that are on the transport
BytesOnWire(id) == Cardinality({i \in 1..Len(hist.wire) : hist.wire[i][1] = id})

\* C13: a frame counted in tx_packets was written in full, and a released
\* frame has all of its bytes on the transport or none of them (none: it was
\* rejected, purged, or its write failed).
FullFrameTransmission ==
    /\ stats.tx_packets = FullyWritten
    /\ \A i \in 1..Len(hist.wire) :
         hist.freed[hist.wire[i][1]] >= 1 =>
             BytesOnWire(hist.wire[i][1]) = hist.wire[i][3]

\* ---- C14 ----
\* C14: after a kernel_sendmsg that returned an error the TX thread dequeues
\* and writes no further frame, and the transmit statistics count the
\* successful writes only: one packet per write that put bytes on the
\* transport, and the bytes on the transport.
WriteErrorStopsTx ==
    /\ hist.tx_errors > 0 => tx_task.pc \notin {"dequeue", "send"}
    /\ stats.tx_packets = Cardinality({id \in 1..MaxFrames : BytesOnWire(id) > 0})
    /\ stats.tx_bytes = Len(hist.wire)

\* ---- C15 ----
\* a step in which a worker calls kernel_sendmsg or netif_rx
WorkerOperation ==
    \/ hist'.wire # hist.wire
    \/ hist'.tx_errors # hist.tx_errors
    \/ hist'.delivered # hist.delivered
    \/ hist'.down_attempts # hist.down_attempts

\* C15: while running is false no worker writes to the transport or injects
\* into the interface.
NoOperationOnceStopping ==
    [][(bridge_mem = "live" /\ ~running) => ~WorkerOperation]_vars

\* ---- C16 ----
\* C16: a step of the RX thread leaves the transmit side alone (the queue, the
\* frame tap_xmit or the TX thread holds, the transmit statistics, the bytes on
\* the transport, the frame releases), a step of the TX thread leaves the
\* receive side alone (the pending reads, the receive statistics, the stream
\* of injected frames, the stack's drop count), neither writes running, and the
\* injected frames are the received ones in the order of their arrival, each
\* once.
DirectionIndependence ==
    /\ [][/\ RxStep =>
               /\ UNCHANGED <<running, tx_queue, xmit, tx_task>>
               /\ stats'.tx_packets = stats.tx_packets
               /\ stats'.tx_bytes = stats.tx_bytes
               /\ stats'.tx_dropped = stats.tx_dropped
               /\ hist'.wire = hist.wire
               /\ hist'.freed = hist.freed
          /\ TxStep =>
               /\ UNCHANGED <<running, rx_pending, rx_task, dev_rx_dropped>>
               /\ stats'.rx_packets = stats.rx_packets
               /\ stats'.rx_bytes = stats.rx_bytes
               /\ stats'.rx_dropped = stats.rx_dropped
               /\ hist'.delivered = hist.delivered
               /\ hist'.down_attempts = hist.down_attempts
         ]_vars
    /\ [](\A i, j \in 1..Len(hist.delivered) :
              i < j => hist.delivered[i] < hist.delivered[j])

\* both directions carried traffic in one run: a received frame was injected
\* and counted, and a queued frame was written and counted
BothDirectionsActive ==
    /\ stats.rx_packets > 0
    /\ Len(hist.delivered) > 0
    /\ stats.tx_packets > 0
    /\ Len(hist.wire) > 0

\* ---- C17 ----
\* the holders of outbound frame id: queue slots, tap_xmit, the TX thread
Owners(id) ==
    Cardinality({i \in 1..Len(tx_queue) : tx_queue[i].id = id})
    + (IF xmit.skb.id = id THEN 1 ELSE 0)
    + (IF tx_task.skb.id = id THEN 1 ELSE 0)

\* the exit routine ran to its end on a bridge whose startup had succeeded
Stopped ==
    /\ init_pc = "returned_ok"
    /\ hist.exit_calls >= 1
    /\ exit_pc = "idle"
    /\ bridge = "NULL"

\* C17: every frame handed to tap_xmit has one holder and no release, or no
\* holder and one release; the purge runs when the device is gone and no
\* tap_xmit call is in progress; when the bridge is stopped, or startup has
\* returned an error, the queue is empty and every submitted frame was
\* released once.
FrameOwnership ==
    /\ \A id \in 1..MaxFrames :
         Owners(id) + hist.freed[id] = (IF id <= hist.submitted THEN 1 ELSE 0)
    /\ exit_pc = "purge" => (dev_state \notin {"allocated", "registered"} /\ xmit.pc = "idle")
    /\ (Stopped \/ init_pc = "returned_err") =>
         /\ tx_queue = <<>>
         /\ \A id \in 1..hist.submitted : hist.freed[id] = 1

\* the bridge is stopped after a shutdown without any further invalid access, whose
\* purge released a queued frame while another frame had been written to the
\* transport
StoppedAfterPurge ==
    /\ Stopped
    /\ hist.purged > 0
    /\ Len(hist.wire) > 0
    /\ hist.submitted = 2
    /\ OtherFaults = {}

\* ---- C18 ----
\* C18: tap_xmit never calls wake_up_process on a TX handle that is NULL or an
\* error pointer (no worker started yet) or that refers to a worker that has
\* exited.
XmitWakesLiveWorker ==
    faults \cap {"wake_no_task", "wake_stale_task"} = {}

\* ---- C19 ----
\* C19: kthread_stop is never called on a worker that has already returned
\* from its thread function.
StopOnlyLiveWorker ==
    "kthread_stop_stale" \notin faults

\* ---- C20 ----
\* frame id sits in the transmit queue
Queued(id) == \E i \in 1..Len(tx_queue) : tx_queue[i].id = id

\* C20: a frame that sits in the queue while the TX thread is alive is in the
\* end dequeued and handed to kernel_sendmsg, after which it is released,
\* unless running is cleared or the bridge is freed first.
TransmitProgress ==
    \A id \in 1..MaxFrames :
        (Queued(id) /\ tx_task.st = "running")
            ~> (hist.freed[id] >= 1 \/ ~running \/ bridge_mem # "live")

\* the missed wake-up: the TX thread found the queue empty, tap_xmit enqueued
\* a frame and woke it before it set TASK_INTERRUPTIBLE, and the thread now
\* sleeps in schedule_timeout with the frame queued and tap_xmit returned
SleepsOnQueuedFrame ==
    /\ tx_task.st = "running"
    /\ tx_task.pc = "sleep"
    /\ tx_task.state = "INTERRUPTIBLE"
    /\ tx_queue # <<>>
    /\ running
    /\ xmit.pc = "idle"
    /\ OtherFaults = {}

=============================================================================
